---- MODULE Spec2Model ----
(***************************************************************************)
(* Model of OutQueueControl, the outgoing-traffic scheduler of the client  *)
(* (clients/client-core/src/client/real_messages_control/                  *)
(* real_traffic_stream.rs).                                                *)
(*                                                                         *)
(* The scheduler is one task.  Its position is `pc`; every action below is *)
(* one synchronous segment of that task (the code between two points where *)
(* another task can be observed), or one step of its environment: the      *)
(* upstream producer, the clock, the topology writer and the receivers of  *)
(* the two outgoing channels.                                              *)
(***************************************************************************)
EXTENDS Integers, Sequences, FiniteSets, TLC

\* ------------------------------------------------------------------ bounds
\* The clock runs freely up to this instant.
MaxTime == 2
\* Sampled intervals are 1..MaxInterval.
MaxInterval == 2
\* Batches the upstream producer delivers.
MaxBatches == 2
\* Messages in one batch.
MaxBatchLen == 2

Intervals == 1..MaxInterval

\* ------------------------------------------------------------------- state
VARIABLES
    pc,                \* position of the scheduler task
    panic,             \* which unwrap/expect aborted the task ("none" if none)
    vpn_mode,          \* argument of run_out_queue_control
    now,               \* the clock (tokio::time::Instant::now)
    next_delay,        \* deadline of self.next_delay
    received_buffer,   \* self.received_buffer
    real_receiver,     \* batches queued in the intake channel
    intake_closed,     \* every BatchRealMessageSender was dropped
    next_message,      \* the StreamMessage handed from next() to on_message
    batch_iter,        \* on_batch_received: real_messages.into_iter()
    mix_packets,       \* on_batch_received: the Vec being collected
    mix_rx,            \* everything enqueued on mix_tx, one entry per send call
    mix_rx_open,       \* the receiver of mix_tx is alive
    notified,          \* everything enqueued on sent_notifier
    notifier_open,     \* the receiver of sent_notifier is alive
    topology_valid,    \* try_get_valid_topology_ref would return Some
    topology_lock,     \* "free", "read" (held by the scheduler) or "write"
    delivered,         \* history: the batches handed to the intake channel
    deadline0,         \* history: the deadline armed by run_normal_out_queue
    sampled,           \* history: sum of the intervals sampled by poll_next
    ticks,             \* history: number of times poll_next passed line 133
    skips,             \* history: Cover decisions dropped for want of a topology
    covers             \* history: Cover decisions returned by poll_next

sched == <<pc, panic, next_delay, received_buffer, next_message, batch_iter,
           mix_packets>>
outs == <<mix_rx, notified>>
env == <<vpn_mode, now, real_receiver, intake_closed, mix_rx_open,
         notifier_open, topology_valid, topology_lock, delivered>>
hist == <<deadline0, sampled, ticks, skips, covers>>
vars == <<pc, panic, vpn_mode, now, next_delay, received_buffer,
          real_receiver, intake_closed, next_message, batch_iter,
          mix_packets, mix_rx, mix_rx_open, notified, notifier_open,
          topology_valid, topology_lock, delivered, deadline0, sampled,
          ticks, skips, covers>>

\* ------------------------------------------------------------ data model
\* A MixPacket is opaque: real packets are numbered 1, 2, ... in the order
\* they were built, the loop cover packet is CoverPacket.
CoverPacket == 0

RealMessage(packet, frag) == [mix_packet |-> packet, fragment_id |-> frag]

NoRealMessage == RealMessage(CoverPacket, 0)

StreamCover == [tag |-> "Cover", msg |-> NoRealMessage]
StreamReal(m) == [tag |-> "Real", msg |-> m]
NoStreamMessage == [tag |-> "None", msg |-> NoRealMessage]

\* ---------------------------------------------------------------- helpers
RECURSIVE Flatten(_)
Flatten(batches) ==
    IF batches = <<>> THEN <<>>
    ELSE Head(batches) \o Flatten(Tail(batches))

IsPrefix(s, t) == Len(s) <= Len(t) /\ SubSeq(t, 1, Len(s)) = s

IsReal(packet) == packet # CoverPacket

PacketsOf(msgs) == [i \in 1..Len(msgs) |-> msgs[i].mix_packet]
FragsOf(msgs) == [i \in 1..Len(msgs) |-> msgs[i].fragment_id]

\* The FragmentIdentifier of the fragment that real packet `packet` carries.
FragBase == 100
FragmentOf(packet) == FragBase + packet

\* The batches the producer may hand over next: 1..MaxBatchLen fresh packets.
NewBatches(first) ==
    {[i \in 1..n |-> RealMessage(first + i - 1, FragmentOf(first + i - 1))]
     : n \in 1..MaxBatchLen}

\* ------------------------------------------------------------------- init
Init ==
    /\ pc = "start"
    /\ panic = "none"
    /\ vpn_mode \in BOOLEAN
    /\ now = 0
    /\ next_delay = 0
    /\ received_buffer = <<>>
    /\ real_receiver = <<>>
    /\ intake_closed = FALSE
    /\ next_message = NoStreamMessage
    /\ batch_iter = <<>>
    /\ mix_packets = <<>>
    /\ mix_rx = <<>>
    /\ mix_rx_open = TRUE
    /\ notified = <<>>
    /\ notifier_open = TRUE
    /\ topology_valid \in BOOLEAN
    /\ topology_lock = "free"
    /\ delivered = <<>>
    /\ deadline0 = 0
    /\ sampled = 0
    /\ ticks = 0
    /\ skips = 0
    /\ covers = 0

\* ------------------------------------------------------------ environment
\* The upstream producer hands one more batch to the intake channel.
Deliver ==
    /\ ~intake_closed
    /\ Len(delivered) < MaxBatches
    /\ \E b \in NewBatches(Len(Flatten(delivered)) + 1) :
        /\ real_receiver' = Append(real_receiver, b)
        /\ delivered' = Append(delivered, b)
    /\ UNCHANGED <<sched, outs, hist, vpn_mode, now, intake_closed,
                   mix_rx_open, notifier_open, topology_valid, topology_lock>>

\* The messages handed to intake that the scheduler has not yet picked for
\* sending.
Backlog ==
    Len(Flatten(real_receiver)) + Len(received_buffer) + Len(batch_iter)

\* The last sender of the intake channel is dropped.
CloseIntake ==
    /\ ~intake_closed
    /\ intake_closed' = TRUE
    /\ UNCHANGED <<sched, outs, hist, vpn_mode, now, real_receiver,
                   mix_rx_open, notifier_open, topology_valid, topology_lock,
                   delivered>>

\* Real traffic that the scheduler has accepted or can still observe.
PendingWork ==
    /\ pc \notin {"start", "done", "panicked"}
    /\ ~vpn_mode
    /\ \/ intake_closed
       \/ real_receiver # <<>>
       \/ received_buffer # <<>>

\* Time passes.  The task reads the clock only where it arms the timer and
\* where it waits for it, so the time its other steps take is accounted for
\* at the suspension point that follows them.  Past MaxTime time passes only
\* up to the armed deadline, and only while the scheduler has something left
\* to do at that deadline.
Tick ==
    /\ pc \in {"start", "next", "yield"}
    /\ \/ now < MaxTime
       \/ now < next_delay /\ PendingWork
    /\ now' = now + 1
    /\ UNCHANGED <<sched, outs, hist, vpn_mode, real_receiver, intake_closed,
                   mix_rx_open, notifier_open, topology_valid, topology_lock,
                   delivered>>

\* The topology refresher takes the write half of the lock.  The scheduler
\* looks at the lock and the snapshot only when it handles a Cover decision,
\* so the model lets the refresher run right before that ...
TopologyWriteAcquire ==
    /\ topology_lock = "free"
    /\ pc = "on_message"
    /\ next_message.tag = "Cover"
    /\ topology_lock' = "write"
    /\ UNCHANGED <<sched, outs, hist, vpn_mode, now, real_receiver,
                   intake_closed, mix_rx_open, notifier_open, topology_valid,
                   delivered>>

\* ... and stores a new snapshot, which may or may not be usable.
TopologyWriteRelease ==
    /\ topology_lock = "write"
    /\ topology_lock' = "free"
    /\ topology_valid' \in BOOLEAN
    /\ UNCHANGED <<sched, outs, hist, vpn_mode, now, real_receiver,
                   intake_closed, mix_rx_open, notifier_open, delivered>>

\* The consumer of mix_tx goes away.  The scheduler can notice that only at
\* its next send, so the model lets it happen right before one.
CloseMixReceiver ==
    /\ mix_rx_open
    /\ \/ pc = "send"
       \/ pc = "vpn_batch" /\ batch_iter = <<>>
    /\ mix_rx_open' = FALSE
    /\ UNCHANGED <<sched, outs, hist, vpn_mode, now, real_receiver,
                   intake_closed, notifier_open, topology_valid, topology_lock,
                   delivered>>

\* The consumer of sent_notifier goes away, right before a notification.
CloseNotificationReceiver ==
    /\ notifier_open
    /\ \/ pc = "on_message" /\ next_message.tag = "Real"
       \/ pc = "vpn_batch" /\ batch_iter # <<>>
    /\ notifier_open' = FALSE
    /\ UNCHANGED <<sched, outs, hist, vpn_mode, now, real_receiver,
                   intake_closed, mix_rx_open, topology_valid, topology_lock,
                   delivered>>

\* ------------------------------------------------------- run_out_queue_control
\* run_normal_out_queue, up to its first self.next().await
RunNormalOutQueue ==
    /\ pc = "start"
    /\ ~vpn_mode
    /\ \E s \in Intervals :
        /\ next_delay' = now + s
        /\ deadline0' = now + s
    /\ pc' = "next"
    /\ UNCHANGED <<panic, received_buffer, next_message, batch_iter,
                   mix_packets, outs, env, sampled, ticks, skips, covers>>

\* An unshaped start that arms the delay like the shaped one.
RunVpnOutQueueArmed ==
    /\ pc = "start"
    /\ vpn_mode
    /\ \E s \in Intervals : next_delay' = now + s
    /\ pc' = "vpn_recv"
    /\ UNCHANGED <<panic, received_buffer, next_message, batch_iter,
                   mix_packets, outs, env, hist>>


\* run_vpn_out_queue, up to its first self.real_receiver.next().await
RunVpnOutQueue ==
    /\ pc = "start"
    /\ vpn_mode
    /\ pc' = "vpn_recv"
    /\ UNCHANGED <<panic, next_delay, received_buffer, next_message,
                   batch_iter, mix_packets, outs, env, hist>>

\* ------------------------------------------------------------------ poll_next
\* A deadline counted from the instant the tick is processed.
NextDeadlineFromNow(deadline, clock, sample) == clock + sample

\* The deadline that replaces `deadline` when a tick is processed at `clock`
\* (lines 138-143: `now` is the deadline that just elapsed).
NextDeadline(deadline, clock, sample) == deadline + sample

\* Lines 131-144: the delay has elapsed, so the next one is armed.
Rearm(s) ==
    /\ pc = "next"
    /\ now >= next_delay
    /\ next_delay' = NextDeadline(next_delay, now, s)
    /\ sampled' = sampled + s
    /\ ticks' = ticks + 1

\* A pop that takes the newest element.
PopBack(queue) ==
    [item |-> queue[Len(queue)], rest |-> SubSeq(queue, 1, Len(queue) - 1)]

\* received_buffer.pop_front() on a non-empty queue (lines 147 and 162).
PopFront(queue) == [item |-> Head(queue), rest |-> Tail(queue)]

\* The intake channel looked at before the pending queue.
PollNextBufferedIntakeFirst ==
    /\ \E s \in Intervals : Rearm(s)
    /\ received_buffer # <<>>
    /\ IF real_receiver = <<>> /\ ~intake_closed
       THEN /\ next_message' = StreamCover
            /\ covers' = covers + 1
            /\ UNCHANGED received_buffer
       ELSE /\ next_message' = StreamReal(PopFront(received_buffer).item)
            /\ received_buffer' = PopFront(received_buffer).rest
            /\ UNCHANGED covers
    /\ pc' = "on_message"
    /\ UNCHANGED <<panic, batch_iter, mix_packets, outs, env, deadline0, skips>>


\* Lines 147-149: the pending queue has a message.
PollNextBuffered ==
    /\ \E s \in Intervals : Rearm(s)
    /\ received_buffer # <<>>
    /\ next_message' = StreamReal(PopFront(received_buffer).item)
    /\ received_buffer' = PopFront(received_buffer).rest
    /\ pc' = "on_message"
    /\ UNCHANGED <<panic, batch_iter, mix_packets, outs, env, deadline0, skips, covers>>

\* A closed intake treated like an empty one.
PollNextClosedAsCover ==
    /\ \E s \in Intervals : Rearm(s)
    /\ received_buffer = <<>>
    /\ real_receiver = <<>>
    /\ intake_closed
    /\ next_message' = StreamCover
    /\ covers' = covers + 1
    /\ pc' = "on_message"
    /\ UNCHANGED <<panic, received_buffer, batch_iter, mix_packets, outs, env,
                   deadline0, skips>>

\* The closure reported as soon as the last sender is gone, whatever the
\* channel still holds.
PollNextClosedEager ==
    /\ \E s \in Intervals : Rearm(s)
    /\ received_buffer = <<>>
    /\ intake_closed
    /\ pc' = "done"
    /\ UNCHANGED <<panic, received_buffer, next_message, batch_iter,
                   mix_packets, outs, env, deadline0, skips, covers>>


\* Line 155: the intake channel is closed and drained.
PollNextClosed ==
    /\ \E s \in Intervals : Rearm(s)
    /\ received_buffer = <<>>
    /\ real_receiver = <<>>
    /\ intake_closed
    /\ pc' = "done"
    /\ UNCHANGED <<panic, received_buffer, next_message, batch_iter,
                   mix_packets, outs, env, deadline0, skips, covers>>

\* A refill that keeps only the message it returns.
PollNextBatchDropRest ==
    /\ \E s \in Intervals : Rearm(s)
    /\ received_buffer = <<>>
    /\ real_receiver # <<>>
    /\ Head(real_receiver) # <<>>
    /\ next_message' = StreamReal(PopFront(Head(real_receiver)).item)
    /\ received_buffer' = <<>>
    /\ real_receiver' = Tail(real_receiver)
    /\ pc' = "on_message"
    /\ UNCHANGED <<panic, batch_iter, mix_packets, outs, vpn_mode, now,
                   intake_closed, mix_rx_open, notifier_open, topology_valid,
                   topology_lock, delivered, deadline0, skips, covers>>

\* The intake channel polled at every tick, a batch taken from it replacing
\* what the pending queue held.
PollNextBatchAlways ==
    /\ \E s \in Intervals : Rearm(s)
    /\ real_receiver # <<>>
    /\ Head(real_receiver) # <<>>
    /\ next_message' = StreamReal(PopFront(Head(real_receiver)).item)
    /\ received_buffer' = PopFront(Head(real_receiver)).rest
    /\ real_receiver' = Tail(real_receiver)
    /\ pc' = "on_message"
    /\ UNCHANGED <<panic, batch_iter, mix_packets, outs, vpn_mode, now,
                   intake_closed, mix_rx_open, notifier_open, topology_valid,
                   topology_lock, delivered, deadline0, skips, covers>>


\* A batch taken from the intake channel at any tick and put behind what the
\* pending queue holds.
PollNextBatchExtend ==
    /\ \E s \in Intervals : Rearm(s)
    /\ real_receiver # <<>>
    /\ Head(real_receiver) # <<>>
    /\ next_message' =
           StreamReal(PopFront(received_buffer \o Head(real_receiver)).item)
    /\ received_buffer' = PopFront(received_buffer \o Head(real_receiver)).rest
    /\ real_receiver' = Tail(real_receiver)
    /\ pc' = "on_message"
    /\ UNCHANGED <<panic, batch_iter, mix_packets, outs, vpn_mode, now,
                   intake_closed, mix_rx_open, notifier_open, topology_valid,
                   topology_lock, delivered, deadline0, skips, covers>>


\* Lines 158-164: a batch is waiting in the intake channel.
PollNextBatch ==
    /\ \E s \in Intervals : Rearm(s)
    /\ received_buffer = <<>>
    /\ real_receiver # <<>>
    /\ Head(real_receiver) # <<>>
    /\ next_message' = StreamReal(PopFront(Head(real_receiver)).item)
    /\ received_buffer' = PopFront(Head(real_receiver)).rest
    /\ real_receiver' = Tail(real_receiver)
    /\ pc' = "on_message"
    /\ UNCHANGED <<panic, batch_iter, mix_packets, outs, vpn_mode, now,
                   intake_closed, mix_rx_open, notifier_open, topology_valid,
                   topology_lock, delivered, deadline0, skips, covers>>

\* An empty intake treated like a closed one.
PollNextCoverAsClosed ==
    /\ \E s \in Intervals : Rearm(s)
    /\ received_buffer = <<>>
    /\ real_receiver = <<>>
    /\ ~intake_closed
    /\ pc' = "done"
    /\ UNCHANGED <<panic, received_buffer, next_message, batch_iter,
                   mix_packets, outs, env, deadline0, skips, covers>>

\* Line 167: the intake channel is open and empty.
PollNextCover ==
    /\ \E s \in Intervals : Rearm(s)
    /\ received_buffer = <<>>
    /\ real_receiver = <<>>
    /\ ~intake_closed
    /\ next_message' = StreamCover
    /\ covers' = covers + 1
    /\ pc' = "on_message"
    /\ UNCHANGED <<panic, received_buffer, batch_iter, mix_packets, outs, env,
                   deadline0, skips>>

\* ----------------------------------------------------------------- on_message
Abort(why) ==
    /\ pc' = "panicked"
    /\ panic' = why

\* A Real decision that goes to the send without the notification.
SentNotifySkipped ==
    /\ pc = "on_message"
    /\ next_message.tag = "Real"
    /\ notifier_open
    /\ pc' = "send"
    /\ UNCHANGED <<panic, next_delay, received_buffer, next_message,
                   batch_iter, mix_packets, outs, env, hist>>

\* Line 241 (sent_notify, lines 200-206), the receiver being alive.
SentNotify ==
    /\ pc = "on_message"
    /\ next_message.tag = "Real"
    /\ notifier_open
    /\ notified' = Append(notified, next_message.msg.fragment_id)
    /\ pc' = "send"
    /\ UNCHANGED <<panic, next_delay, received_buffer, next_message,
                   batch_iter, mix_packets, mix_rx, env, hist>>

\* Line 205: unbounded_send(frag_id).unwrap() on a closed channel.
SentNotifyPanic ==
    /\ pc = "on_message"
    /\ next_message.tag = "Real"
    /\ ~notifier_open
    /\ Abort("sent_notifier")
    /\ UNCHANGED <<next_delay, received_buffer, next_message, batch_iter,
                   mix_packets, outs, env, hist>>

\* Line 216: get_read_permit().await completes once no writer holds the lock.
GetReadPermit ==
    /\ pc = "on_message"
    /\ next_message.tag = "Cover"
    /\ topology_lock = "free"
    /\ topology_lock' = "read"
    /\ pc' = "permit"
    /\ UNCHANGED <<panic, next_delay, received_buffer, next_message,
                   batch_iter, mix_packets, outs, hist, vpn_mode, now,
                   real_receiver, intake_closed, mix_rx_open, notifier_open,
                   topology_valid, delivered>>

\* A skip that keeps the Cover decision and tries again.
CoverSkipRetry ==
    /\ pc = "permit"
    /\ ~topology_valid
    /\ topology_lock' = "free"
    /\ skips' = skips + 1
    /\ pc' = "on_message"
    /\ UNCHANGED <<panic, next_delay, received_buffer, next_message,
                   batch_iter, mix_packets, outs, vpn_mode, now,
                   real_receiver, intake_closed, mix_rx_open, notifier_open,
                   topology_valid, delivered, deadline0, sampled, ticks, covers>>

\* Lines 222-227: no valid topology, the tick is dropped.
CoverSkip ==
    /\ pc = "permit"
    /\ ~topology_valid
    /\ topology_lock' = "free"
    /\ next_message' = NoStreamMessage
    /\ skips' = skips + 1
    /\ pc' = "next"
    /\ UNCHANGED <<panic, next_delay, received_buffer, batch_iter,
                   mix_packets, outs, vpn_mode, now, real_receiver,
                   intake_closed, mix_rx_open, notifier_open, topology_valid,
                   delivered, deadline0, sampled, ticks, covers>>

\* A cover packet that is announced to the retransmission tracker.
CoverGenerateNotified ==
    /\ pc = "permit"
    /\ topology_valid
    /\ topology_lock' = "free"
    /\ notified' = Append(notified, next_message.msg.fragment_id)
    /\ pc' = "send"
    /\ UNCHANGED <<panic, next_delay, received_buffer, next_message,
                   batch_iter, mix_packets, mix_rx, hist, vpn_mode, now,
                   real_receiver, intake_closed, mix_rx_open, notifier_open,
                   topology_valid, delivered>>

\* A cover packet built with the permit kept until on_message returns.
CoverGenerateHoldingPermit ==
    /\ pc = "permit"
    /\ topology_valid
    /\ pc' = "send"
    /\ UNCHANGED <<panic, next_delay, received_buffer, next_message,
                   batch_iter, mix_packets, outs, hist, env>>


\* Lines 228-239: the cover packet is built and the permit dropped at the end
\* of the match arm.
CoverGenerate ==
    /\ pc = "permit"
    /\ topology_valid
    /\ topology_lock' = "free"
    /\ pc' = "send"
    /\ UNCHANGED <<panic, next_delay, received_buffer, next_message,
                   batch_iter, mix_packets, outs, hist, vpn_mode, now,
                   real_receiver, intake_closed, mix_rx_open, notifier_open,
                   topology_valid, delivered>>

\* Line 238: generate_loop_cover_packet(..).expect(..) fails.
CoverGeneratePanic ==
    /\ pc = "permit"
    /\ topology_valid
    /\ topology_lock' = "free"
    /\ Abort("cover_packet")
    /\ UNCHANGED <<next_delay, received_buffer, next_message, batch_iter,
                   mix_packets, outs, hist, vpn_mode, now, real_receiver,
                   intake_closed, mix_rx_open, notifier_open, topology_valid,
                   delivered>>

\* The packet bound to `next_message` at line 211.
PacketToSend ==
    IF next_message.tag = "Cover" THEN CoverPacket
    ELSE next_message.msg.mix_packet

\* A send that empties the pending queue into the same vector.
MixSendDrain ==
    /\ pc = "send"
    /\ mix_rx_open
    /\ mix_rx' = Append(mix_rx, <<PacketToSend>> \o PacketsOf(received_buffer))
    /\ received_buffer' = <<>>
    /\ pc' = "yield"
    /\ UNCHANGED <<panic, next_delay, next_message, batch_iter, mix_packets,
                   notified, env, hist>>

\* A send that goes straight back to the next poll.
MixSendNoYield ==
    /\ pc = "send"
    /\ mix_rx_open
    /\ mix_rx' = Append(mix_rx, <<PacketToSend>>)
    /\ next_message' = NoStreamMessage
    /\ pc' = "next"
    /\ UNCHANGED <<panic, next_delay, received_buffer, batch_iter,
                   mix_packets, notified, env, hist>>


\* Line 250, the receiver being alive.
MixSend ==
    /\ pc = "send"
    /\ mix_rx_open
    /\ mix_rx' = Append(mix_rx, <<PacketToSend>>)
    /\ pc' = "yield"
    /\ UNCHANGED <<panic, next_delay, received_buffer, next_message,
                   batch_iter, mix_packets, notified, env, hist>>

\* A failed send whose error is dropped.
MixSendIgnored ==
    /\ pc = "send"
    /\ ~mix_rx_open
    /\ pc' = "yield"
    /\ UNCHANGED <<panic, next_delay, received_buffer, next_message,
                   batch_iter, mix_packets, outs, env, hist>>

\* Line 250: unbounded_send(..).unwrap() on a closed channel.
MixSendPanic ==
    /\ pc = "send"
    /\ ~mix_rx_open
    /\ Abort("mix_tx")
    /\ UNCHANGED <<next_delay, received_buffer, next_message, batch_iter,
                   mix_packets, outs, env, hist>>

\* A yield that pushes the deadline back by the time the handling took.
YieldNowRearmed ==
    /\ pc = "yield"
    /\ next_message' = NoStreamMessage
    /\ next_delay' = IF now >= next_delay THEN now + 1 ELSE next_delay
    /\ pc' = "next"
    /\ UNCHANGED <<panic, received_buffer, batch_iter, mix_packets, outs,
                   env, hist>>


\* Line 257: the task is polled again after yield_now().
YieldNow ==
    /\ pc = "yield"
    /\ next_message' = NoStreamMessage
    /\ pc' = "next"
    /\ UNCHANGED <<panic, next_delay, received_buffer, batch_iter,
                   mix_packets, outs, env, hist>>

\* ---------------------------------------------------------- run_vpn_out_queue
\* Line 284: real_receiver.next().await yields a batch.
VpnReceive ==
    /\ pc = "vpn_recv"
    /\ real_receiver # <<>>
    /\ batch_iter' = Head(real_receiver)
    /\ real_receiver' = Tail(real_receiver)
    /\ mix_packets' = <<>>
    /\ pc' = "vpn_batch"
    /\ UNCHANGED <<panic, next_delay, received_buffer, next_message, outs,
                   hist, vpn_mode, now, intake_closed, mix_rx_open,
                   notifier_open, topology_valid, topology_lock, delivered>>

\* Line 284: real_receiver.next().await yields None.
VpnClosed ==
    /\ pc = "vpn_recv"
    /\ real_receiver = <<>>
    /\ intake_closed
    /\ pc' = "done"
    /\ UNCHANGED <<panic, next_delay, received_buffer, next_message,
                   batch_iter, mix_packets, outs, env, hist>>

\* A loop that sends every packet on its own instead of collecting it.
VpnNotifySendEach ==
    /\ pc = "vpn_batch"
    /\ batch_iter # <<>>
    /\ notifier_open
    /\ notified' = Append(notified, Head(batch_iter).fragment_id)
    /\ mix_rx' = Append(mix_rx, <<Head(batch_iter).mix_packet>>)
    /\ batch_iter' = Tail(batch_iter)
    /\ UNCHANGED <<pc, panic, next_delay, received_buffer, next_message,
                   mix_packets, env, hist>>

\* Lines 262-265: one turn of the loop of on_batch_received.
VpnNotify ==
    /\ pc = "vpn_batch"
    /\ batch_iter # <<>>
    /\ notifier_open
    /\ notified' = Append(notified, Head(batch_iter).fragment_id)
    /\ mix_packets' = Append(mix_packets, Head(batch_iter).mix_packet)
    /\ batch_iter' = Tail(batch_iter)
    /\ UNCHANGED <<pc, panic, next_delay, received_buffer, next_message,
                   mix_rx, env, hist>>

\* Line 263, sent_notify on a closed channel.
VpnNotifyPanic ==
    /\ pc = "vpn_batch"
    /\ batch_iter # <<>>
    /\ ~notifier_open
    /\ Abort("sent_notifier")
    /\ UNCHANGED <<next_delay, received_buffer, next_message, batch_iter,
                   mix_packets, outs, env, hist>>

\* Line 266, the receiver being alive.
VpnSend ==
    /\ pc = "vpn_batch"
    /\ batch_iter = <<>>
    /\ mix_rx_open
    /\ mix_rx' = Append(mix_rx, mix_packets)
    /\ mix_packets' = <<>>
    /\ pc' = "vpn_recv"
    /\ UNCHANGED <<panic, next_delay, received_buffer, next_message,
                   batch_iter, notified, env, hist>>

\* Line 266: unbounded_send(mix_packets).unwrap() on a closed channel.
VpnSendPanic ==
    /\ pc = "vpn_batch"
    /\ batch_iter = <<>>
    /\ ~mix_rx_open
    /\ Abort("mix_tx")
    /\ UNCHANGED <<next_delay, received_buffer, next_message, batch_iter,
                   mix_packets, outs, env, hist>>

\* ------------------------------------------------------------- specifications
Producer == Deliver \/ CloseIntake

Topology == TopologyWriteAcquire \/ TopologyWriteRelease

Shaped ==
    \/ RunNormalOutQueue
    \/ PollNextBuffered
    \/ PollNextClosed
    \/ PollNextBatch
    \/ PollNextCover
    \/ SentNotify
    \/ GetReadPermit
    \/ CoverSkip
    \/ CoverGenerate
    \/ MixSend
    \/ YieldNow

Unshaped ==
    \/ RunVpnOutQueue
    \/ VpnReceive
    \/ VpnClosed
    \/ VpnNotify
    \/ VpnSend

Failures ==
    \/ CloseMixReceiver
    \/ CloseNotificationReceiver
    \/ SentNotifyPanic
    \/ CoverGeneratePanic
    \/ MixSendPanic
    \/ VpnNotifyPanic
    \/ VpnSendPanic

\* Every behaviour: collaborators may disappear at any moment.
Next == Producer \/ Tick \/ Topology \/ Shaped \/ Unshaped \/ Failures

Spec == Init /\ [][Next]_vars

\* The collaborators stay alive, the runtime keeps polling the task, the clock
\* keeps running, a topology writer lets go of the lock and the lock is fair
\* to a waiting reader.
NextLive == Producer \/ Tick \/ Topology \/ Shaped \/ Unshaped

LiveSpec ==
    /\ Init
    /\ [][NextLive]_vars
    /\ WF_vars(Shaped)
    /\ WF_vars(Unshaped)
    /\ WF_vars(Tick)
    /\ WF_vars(TopologyWriteRelease)
    /\ SF_vars(GetReadPermit)


\* ------------------------------------------------- the empty batch (shaped)
\* The upstream producer breaks its precondition and hands over an empty
\* batch.
DeliverEmpty ==
    /\ ~intake_closed
    /\ Len(delivered) < MaxBatches
    /\ real_receiver' = Append(real_receiver, <<>>)
    /\ delivered' = Append(delivered, <<>>)
    /\ UNCHANGED <<sched, outs, hist, vpn_mode, now, intake_closed,
                   mix_rx_open, notifier_open, topology_valid, topology_lock>>

\* An empty batch treated like an empty channel.
PollNextEmptyBatchAsCover ==
    /\ \E s \in Intervals : Rearm(s)
    /\ received_buffer = <<>>
    /\ real_receiver # <<>>
    /\ Head(real_receiver) = <<>>
    /\ real_receiver' = Tail(real_receiver)
    /\ next_message' = StreamCover
    /\ covers' = covers + 1
    /\ pc' = "on_message"
    /\ UNCHANGED <<panic, received_buffer, batch_iter, mix_packets, outs,
                   vpn_mode, now, intake_closed, mix_rx_open, notifier_open,
                   topology_valid, topology_lock, delivered, deadline0, skips>>

\* Lines 158-162 with an empty batch: it is stored as the pending queue and
\* pop_front().unwrap() finds nothing.
PollNextEmptyBatch ==
    /\ \E s \in Intervals : Rearm(s)
    /\ received_buffer = <<>>
    /\ real_receiver # <<>>
    /\ Head(real_receiver) = <<>>
    /\ real_receiver' = Tail(real_receiver)
    /\ received_buffer' = Head(real_receiver)
    /\ Abort("received_buffer")
    /\ UNCHANGED <<next_message, batch_iter, mix_packets, outs, vpn_mode, now,
                   intake_closed, mix_rx_open, notifier_open, topology_valid,
                   topology_lock, delivered, deadline0, skips, covers>>

\* Every behaviour with live collaborators and a producer that may hand over
\* empty batches.
EmptyNext == NextLive \/ DeliverEmpty \/ PollNextEmptyBatch

EmptySpec == Init /\ [][EmptyNext]_vars

\* ------------------------------------------------------- the concrete scenario
\* One batch of two real messages handed to intake before the run loop's
\* first tick, never another one, a topology that stays valid, collaborators
\* that stay alive, and an intake that is closed after both messages were
\* taken.
ScenarioBatch == CHOOSE b \in NewBatches(1) : Len(b) = 2

ScenarioInit ==
    /\ pc = "start"
    /\ panic = "none"
    /\ vpn_mode = FALSE
    /\ now = 0
    /\ next_delay = 0
    /\ received_buffer = <<>>
    /\ real_receiver = <<ScenarioBatch>>
    /\ intake_closed = FALSE
    /\ next_message = NoStreamMessage
    /\ batch_iter = <<>>
    /\ mix_packets = <<>>
    /\ mix_rx = <<>>
    /\ mix_rx_open = TRUE
    /\ notified = <<>>
    /\ notifier_open = TRUE
    /\ topology_valid = TRUE
    /\ topology_lock = "free"
    /\ delivered = <<ScenarioBatch>>
    /\ deadline0 = 0
    /\ sampled = 0
    /\ ticks = 0
    /\ skips = 0
    /\ covers = 0

\* The scenario's clock runs long enough for ticks after the two real ones.
ScenarioEnd == MaxTime + MaxInterval

ScenarioTick ==
    /\ pc \in {"start", "next", "yield"}
    /\ \/ now < ScenarioEnd
       \/ now < next_delay /\ PendingWork
    /\ now' = now + 1
    /\ UNCHANGED <<sched, outs, hist, vpn_mode, real_receiver, intake_closed,
                   mix_rx_open, notifier_open, topology_valid, topology_lock,
                   delivered>>

ScenarioClose ==
    /\ ticks >= Len(ScenarioBatch)
    /\ CloseIntake

ScenarioNext ==
    \/ ScenarioTick
    \/ ScenarioClose
    \/ RunNormalOutQueue
    \/ PollNextBuffered
    \/ PollNextClosed
    \/ PollNextBatch
    \/ PollNextCover
    \/ SentNotify
    \/ GetReadPermit
    \/ CoverGenerate
    \/ MixSend
    \/ YieldNow

ScenarioSpec == ScenarioInit /\ [][ScenarioNext]_vars


\* ------------------------------------------------------------ observations
\* The packets put on mix_tx, in order, and the real ones among them.
MixLog == Flatten(mix_rx)
RealSent == SelectSeq(MixLog, IsReal)
CoverSent == Len(MixLog) - Len(RealSent)

\* The messages handed to intake, in delivery order.
DeliveredMsgs == Flatten(delivered)

\* The fragment identifier the producer attached to a delivered packet.
FragmentIdOf(packet) ==
    (CHOOSE m \in {DeliveredMsgs[i] : i \in 1..Len(DeliveredMsgs)} :
        m.mix_packet = packet).fragment_id

Occurrences(s, x) == Cardinality({i \in 1..Len(s) : s[i] = x})

\* A tick: poll_next got past the delay check.
IsTick == ticks' = ticks + 1

\* ----------------------------------------------------------------------- C1
\* C1: in both modes the real packets forwarded to mix_tx, cover packets
\* ignored, are always a prefix of the concatenation of the delivered batches
\* in delivery order, and are exactly that concatenation once the run loop
\* has returned.
C1_OrderPreservation ==
    /\ IsPrefix(RealSent, PacketsOf(DeliveredMsgs))
    /\ pc = "done" => RealSent = PacketsOf(DeliveredMsgs)

\* Two batches, one of them of two messages, went through a shaped run that
\* also emitted cover traffic, and the loop has returned.
C1_Witness ==
    /\ pc = "done"
    /\ ~vpn_mode
    /\ Len(delivered) = 2
    /\ Len(RealSent) >= 3
    /\ CoverSent >= 1

\* ----------------------------------------------------------------------- C2
\* C2: every delivered real message is eventually forwarded and notified
\* (again and again the scheduler has forwarded once and notified once every
\* message delivered so far), it is forwarded and notified at most once at
\* any time, and when the first message of a batch has been forwarded every
\* message of the batch before it has been forwarded once and notified once.
C2_ExactlyOnce ==
    LET sent == RealSent
        msgs == DeliveredMsgs
    IN  /\ \A i \in 1..Len(msgs) :
            /\ Occurrences(sent, msgs[i].mix_packet) <= 1
            /\ Occurrences(notified, msgs[i].fragment_id) <= 1
        /\ \A j \in 2..Len(delivered) :
            Occurrences(sent, delivered[j][1].mix_packet) = 1 =>
                \A k \in 1..Len(delivered[j - 1]) :
                    /\ Occurrences(sent, delivered[j - 1][k].mix_packet) = 1
                    /\ Occurrences(notified,
                                   delivered[j - 1][k].fragment_id) = 1

\* Every message delivered so far has been forwarded once and notified once.
AllHandled ==
    LET sent == RealSent
        msgs == DeliveredMsgs
    IN  \A i \in 1..Len(msgs) :
            /\ Occurrences(sent, msgs[i].mix_packet) = 1
            /\ Occurrences(notified, msgs[i].fragment_id) = 1

C2_NoLoss ==
    /\ []C2_ExactlyOnce
    /\ []<>AllHandled

\* The first message of the second batch has just been forwarded in shaped
\* mode while the intake is still open.
C2_Witness ==
    /\ ~vpn_mode
    /\ ~intake_closed
    /\ Len(delivered) = 2
    /\ Len(delivered[1]) = 2
    /\ Len(RealSent) = 3

\* ----------------------------------------------------------------------- C3
\* A Cover decision that has neither been sent nor skipped yet (or never will
\* be, the task having aborted while handling it).
CoverInHand ==
    IF next_message.tag = "Cover" /\ pc # "yield" THEN 1 ELSE 0

\* C3 as stated: at a tick at which the open intake channel holds no batch
\* the decision is Cover, never Real.
C3_Original ==
    [][(IsTick /\ real_receiver = <<>> /\ ~intake_closed) =>
            next_message'.tag = "Cover"]_vars

\* C3: at every tick at which the pending queue is empty and the open intake
\* channel holds no batch, exactly one decision is produced and it is Cover;
\* a Real decision always consumes a delivered message; and every Cover
\* decision ends in exactly one cover packet or exactly one skip, with no
\* notification.
C3_Accounting ==
    ~vpn_mode => covers = CoverSent + skips + CoverInHand

C3_CoverFill ==
    /\ []C3_Accounting
    /\ [][(IsTick /\ received_buffer = <<>> /\ real_receiver = <<>>
                  /\ ~intake_closed) =>
            /\ next_message'.tag = "Cover"
            /\ covers' = covers + 1
            /\ UNCHANGED outs]_vars
    /\ [][(IsTick /\ next_message'.tag = "Real") =>
            /\ Backlog' = Backlog - 1
            /\ covers' = covers]_vars
    /\ [][(next_message.tag = "Cover" /\ outs' # outs) =>
            /\ notified' = notified
            /\ mix_rx' = Append(mix_rx, <<CoverPacket>>)]_vars

\* Two idle ticks in a row: one was skipped, one emitted a cover packet.
C3_Witness ==
    /\ ~vpn_mode
    /\ delivered = <<>>
    /\ pc = "next"
    /\ ticks = 2
    /\ covers = 2
    /\ skips = 1
    /\ CoverSent = 1

\* ----------------------------------------------------------------------- C6
\* C6 as stated: once intake is closed the run loop returns, and no packet or
\* notification is emitted after the closure.
C6_Original ==
    /\ intake_closed ~> (pc = "done")
    /\ [][intake_closed => UNCHANGED outs]_vars

\* C6: once intake is closed the run loop returns; until then every shaped
\* tick either takes one of the messages delivered before the closure or,
\* none being left, returns, so no Cover decision is made after the closure;
\* every unshaped receive either takes one of the remaining batches or returns;
\* and nothing is emitted once the loop has returned.
C6_Termination ==
    /\ intake_closed ~> (pc = "done")
    /\ [][(intake_closed /\ IsTick) =>
            \/ /\ Backlog > 0
               /\ Backlog' = Backlog - 1
               /\ next_message'.tag = "Real"
            \/ /\ Backlog = 0
               /\ pc' = "done"]_vars
    /\ [][(intake_closed /\ pc = "vpn_recv" /\ pc' # pc) =>
            \/ /\ real_receiver # <<>>
               /\ real_receiver' = Tail(real_receiver)
            \/ /\ real_receiver = <<>>
               /\ pc' = "done"]_vars
    /\ [][pc = "done" => UNCHANGED <<sched, outs>>]_vars

\* A shaped run forwarded two batches at consecutive ticks and returned at
\* the tick after the last message.
C6_Witness ==
    /\ pc = "done"
    /\ ~vpn_mode
    /\ intake_closed
    /\ Len(delivered) = 2
    /\ covers = 0
    /\ ticks = Len(DeliveredMsgs) + 1

\* ----------------------------------------------------------------------- C7
\* C7: in both modes every real packet on mix_tx has its identifier on the
\* notification channel, at the same position, and a send hands over only
\* packets whose identifier was enqueued before that send.
Notified == {notified[i] : i \in 1..Len(notified)}

C7_SentAreNotified ==
    \A i \in 1..Len(RealSent) :
        /\ i <= Len(notified)
        /\ notified[i] = FragmentIdOf(RealSent[i])

C7_NotifyBeforeSend ==
    /\ []C7_SentAreNotified
    /\ [][mix_rx' # mix_rx =>
            \A i \in 1..Len(mix_rx'[Len(mix_rx')]) :
                LET packet == mix_rx'[Len(mix_rx')][i]
                IN  IsReal(packet) => FragmentIdOf(packet) \in Notified]_vars

\* A real packet is notified and about to be sent, after an earlier one went
\* through.
C7_Witness ==
    /\ pc = "send"
    /\ next_message.tag = "Real"
    /\ Len(RealSent) >= 1
    /\ Len(notified) = Len(RealSent) + 1

\* ----------------------------------------------------------------------- C8
\* C8: the notifications are the fragment identifiers of the delivered
\* messages in delivery order, which is the order the packets are forwarded
\* in; there are as many of them as real packets forwarded, except while a
\* notified packet has not been handed over yet; and handling a Cover
\* decision never notifies.
NotifiedAhead ==
    \/ pc \in {"send", "vpn_batch", "panicked"}

C8_NotificationOrder ==
    /\ [](/\ IsPrefix(notified, FragsOf(DeliveredMsgs))
          /\ Len(RealSent) <= Len(notified)
          /\ ~NotifiedAhead => Len(notified) = Len(RealSent))
    /\ [][notified' # notified =>
            /\ next_message.tag # "Cover"
            /\ Len(notified') = Len(notified) + 1]_vars

\* A cover packet went out between two real packets.
C8_Witness ==
    /\ ~vpn_mode
    /\ pc = "next"
    /\ Len(notified) = 2
    /\ Len(MixLog) >= 3
    /\ IsReal(MixLog[1])
    /\ ~IsReal(MixLog[2])

\* ----------------------------------------------------------------------- C9
\* The scheduler is at an enqueue whose receiver is gone.
SendFails ==
    /\ ~mix_rx_open
    /\ \/ pc = "send"
       \/ pc = "vpn_batch" /\ batch_iter = <<>>

NotifyFails ==
    /\ ~notifier_open
    /\ \/ pc = "on_message" /\ next_message.tag = "Real"
       \/ pc = "vpn_batch" /\ batch_iter # <<>>

\* C9: when an enqueue on mix_tx or on the notification channel fails the
\* task aborts at that point, emitting nothing; an aborted task changes
\* nothing any more; and the packet whose notification failed is never on
\* mix_tx.
C9_FailedNotifyNotSent ==
    (pc = "panicked" /\ panic = "sent_notifier") =>
        /\ ~vpn_mode => next_message.msg.mix_packet \notin
                            {MixLog[i] : i \in 1..Len(MixLog)}
        /\ vpn_mode => \A k \in 1..Len(batch_iter) :
                            batch_iter[k].mix_packet \notin
                                {MixLog[i] : i \in 1..Len(MixLog)}

C9_FatalEnqueueFailure ==
    /\ []C9_FailedNotifyNotSent
    /\ [][((SendFails \/ NotifyFails) /\ sched' # sched) =>
            /\ pc' = "panicked"
            /\ panic' = IF SendFails THEN "mix_tx" ELSE "sent_notifier"
            /\ UNCHANGED <<outs, ticks, covers, skips, sampled>>]_vars
    /\ [][pc = "panicked" =>
            UNCHANGED <<sched, outs, ticks, covers, skips, sampled>>]_vars

\* The notification of the second real message failed in shaped mode.
C9_Witness ==
    /\ pc = "panicked"
    /\ panic = "sent_notifier"
    /\ ~vpn_mode
    /\ Len(RealSent) = 1
    /\ next_message.msg.mix_packet = 2

\* ---------------------------------------------------------------------- C10
\* The step that drops a Cover decision for want of a valid topology.
IsSkip == pc = "permit" /\ ~topology_valid /\ sched' # sched

\* C10: a Cover decision without a valid topology emits nothing and notifies
\* nothing, leaves the pending queue and the stored deadline as they are,
\* does not end the loop, and leaves the scheduler exactly where a tick that
\* did emit leaves it after its yield: waiting for the stored deadline, with
\* no decision in hand and no tick consumed.
C10_InvalidTopologySkip ==
    [][IsSkip =>
        /\ UNCHANGED <<outs, received_buffer, next_delay, real_receiver>>
        /\ UNCHANGED <<ticks, covers, sampled>>
        /\ sched' = <<"next", "none", next_delay, received_buffer,
                      NoStreamMessage, batch_iter, mix_packets>>
        /\ topology_lock' = "free"
        /\ skips' = skips + 1]_vars

\* One tick was skipped, another forwarded a real message, and no cover
\* packet made up for the skipped one.
C10_Witness ==
    /\ skips >= 1
    /\ CoverSent = 0
    /\ Len(RealSent) >= 1
    /\ pc = "next"

\* ----------------------------------------------------------------------- C4
\* C4: in shaped mode the stored deadline is the deadline armed at the start
\* plus the sum of the intervals sampled at the ticks processed so far, and a
\* tick moves it by exactly the interval sampled at that tick, however late
\* the tick is processed.
C4_Accumulated ==
    (~vpn_mode /\ pc # "start") => next_delay = deadline0 + sampled

C4_DriftFree ==
    /\ []C4_Accumulated
    /\ [][IsTick => /\ next_delay' - next_delay \in Intervals
                    /\ next_delay' - next_delay = sampled' - sampled]_vars

\* A tick has just been processed so late that the deadline it armed, which
\* is later than the one it was due at, has been reached as well.
C4_Witness ==
    /\ ~vpn_mode
    /\ pc = "on_message"
    /\ ticks >= 1
    /\ now >= next_delay

\* ----------------------------------------------------------------------- C5
\* C5: in unshaped mode, between batches, mix_tx has received one send per
\* batch taken from intake, carrying that batch's packets in order, the
\* notifications are the fragment identifiers of those batches in order, and
\* no cover packet is ever sent.
Taken == Len(delivered) - Len(real_receiver)

C5_UnshapedPassthrough ==
    vpn_mode =>
        /\ CoverSent = 0
        /\ \A i \in 1..Len(mix_rx) :
            i <= Len(delivered) /\ mix_rx[i] = PacketsOf(delivered[i])
        /\ pc \in {"vpn_recv", "done"} =>
            /\ Len(mix_rx) = Taken
            /\ notified = FragsOf(Flatten(SubSeq(delivered, 1, Taken)))

\* Two batches, the second of two messages, were passed through.
C5_Witness ==
    /\ vpn_mode
    /\ pc = "vpn_recv"
    /\ Len(mix_rx) = 2
    /\ Len(mix_rx[2]) = 2
    /\ Len(notified) >= 3

\* ------------------------------------------------------------------------ C11
\* The decisions taken at the ticks so far that are still being handled.
DecisionInHand == IF pc \in {"on_message", "permit", "send"} THEN 1 ELSE 0

\* The ticks so far that ended the run loop instead of taking a decision.
ClosingTick == IF pc = "done" THEN 1 ELSE 0

ScenarioPacket(i) ==
    IF i <= Len(ScenarioBatch) THEN ScenarioBatch[i].mix_packet
    ELSE CoverPacket

\* The i-th tick's send is the i-th send, and it is the first real message,
\* then the second one, then cover.
ScenarioEmissions ==
    /\ Len(mix_rx) + DecisionInHand + ClosingTick = ticks
    /\ \A i \in 1..Len(mix_rx) : mix_rx[i] = <<ScenarioPacket(i)>>

\* What a tick of the scenario decides.
ScenarioDecision ==
    IsTick =>
        IF ticks < Len(ScenarioBatch)
        THEN /\ next_message' = StreamReal(ScenarioBatch[ticks + 1])
             /\ pc' = "on_message"
        ELSE IF ~intake_closed
        THEN /\ next_message' = StreamCover
             /\ pc' = "on_message"
        ELSE pc' = "done"

\* C12: in the concrete scenario (shaped mode, valid topology, one batch of
\* two real messages delivered before the first tick, no further batch, the
\* intake closed later) the first tick emits the first real message, the next
\* tick emits the second one, every later tick before the closure is a cover
\* decision, and the run loop returns at the first tick after the closure.
C12_ConcreteScenario == []ScenarioEmissions /\ [][ScenarioDecision]_vars

\* The scenario played to its end: two real packets, a cover packet, then
\* the tick that saw the closure.
C12_Witness ==
    /\ pc = "done"
    /\ ticks = 4
    /\ mix_rx = <<<<1>>, <<2>>, <<CoverPacket>>>>
    /\ notified = <<FragmentOf(1), FragmentOf(2)>>
    /\ delivered = <<ScenarioBatch>>

\* ------------------------------------------------------------------------ C13
\* What a tick that finds a message in the pending queue does.
BufferedFirst ==
    received_buffer # <<>> =>
        /\ next_message' = StreamReal(Head(received_buffer))
        /\ received_buffer' = Tail(received_buffer)
        /\ pc' = "on_message"
        /\ UNCHANGED <<real_receiver, covers>>

\* The outcomes of polling the intake channel: a batch taken from it, the
\* closure seen, or nothing there and a Cover decision.
IntakePolled ==
    \/ real_receiver' # real_receiver
    \/ pc' = "done"
    \/ next_message' = StreamCover

CoverLast ==
    next_message' = StreamCover =>
        /\ received_buffer = <<>>
        /\ real_receiver = <<>>
        /\ ~intake_closed

\* C13: at every tick in shaped mode a non-empty pending queue gives a Real
\* decision with the queue's front element and leaves the intake channel
\* alone; the intake channel is polled only when the queue is empty; a Cover
\* decision is produced only when the queue is empty and the intake channel
\* is open and holds no batch.
C13_DecisionPriority ==
    [][IsTick =>
        /\ BufferedFirst
        /\ IntakePolled => received_buffer = <<>>
        /\ CoverLast]_vars

\* A tick took the second message of the first batch from the pending queue
\* while the second batch was waiting in the intake channel.
C13_Witness ==
    /\ ~vpn_mode
    /\ pc = "on_message"
    /\ Len(delivered) = 2
    /\ Len(delivered[1]) = 2
    /\ next_message = StreamReal(delivered[1][2])
    /\ real_receiver = <<delivered[2]>>
    /\ ticks = 2

\* ------------------------------------------------------------------------ C14
\* `queue` is what is left of `batch` after its first messages were popped.
IsRestOf(queue, batch) ==
    /\ Len(queue) < Len(batch)
    /\ SubSeq(batch, Len(batch) - Len(queue) + 1, Len(batch)) = queue

\* The size of the largest batch delivered so far.
LargestBatch ==
    CHOOSE n \in {Len(delivered[j]) : j \in 1..Len(delivered)} :
        \A j \in 1..Len(delivered) : Len(delivered[j]) <= n

\* The pending queue holds the rest of one delivered batch.
OneBatchPending ==
    received_buffer # <<>> =>
        /\ \E j \in 1..Len(delivered) : IsRestOf(received_buffer, delivered[j])
        /\ Len(received_buffer) <= LargestBatch - 1

\* The pending queue changes by a pop of its front, or, at a tick that finds
\* it empty, by taking the rest of the batch at the head of the channel.
RefillWhenEmpty ==
    received_buffer' # received_buffer =>
        \/ /\ received_buffer # <<>>
           /\ received_buffer' = Tail(received_buffer)
        \/ /\ received_buffer = <<>>
           /\ IsTick
           /\ real_receiver # <<>>
           /\ received_buffer' = Tail(Head(real_receiver))
           /\ real_receiver' = Tail(real_receiver)

\* C14: the pending queue is assigned a new batch only at a tick where it is
\* empty, so it never holds messages of more than one intake batch, after a
\* decision it is never longer than the largest delivered batch less one, and
\* its contents are always a suffix of one delivered batch in submission order.
C14_RefillInvariant == []OneBatchPending /\ [][RefillWhenEmpty]_vars

\* The second batch was taken at a tick that found the queue empty after the
\* first batch was drained; its rest is pending.
C14_Witness ==
    /\ ~vpn_mode
    /\ pc = "next"
    /\ Len(delivered) = 2
    /\ Len(delivered[1]) = 2
    /\ received_buffer # <<>>
    /\ received_buffer = Tail(delivered[2])
    /\ Len(RealSent) = 3

\* ------------------------------------------------------------------------ C15
\* A tick happens with the deadline reached, samples one interval, stores the
\* next deadline, and has notified and sent nothing yet when its decision
\* comes out.
RearmAtTick ==
    IsTick =>
        /\ pc = "next"
        /\ now >= next_delay
        /\ sampled' - sampled \in Intervals
        /\ next_delay' = next_delay + (sampled' - sampled)
        /\ UNCHANGED outs

\* Once armed, the deadline is moved by ticks only: not by the cover
\* synthesis, the permit acquisition, the notification, the send, the yield.
RearmOnlyAtTick ==
    (pc # "start" /\ ~IsTick) => UNCHANGED <<next_delay, sampled, ticks>>

\* A poll that finds the deadline not reached changes nothing.
PendingKeepsState ==
    (pc = "next" /\ now < next_delay) => UNCHANGED <<sched, outs, hist>>

\* C15: on every tick whose deadline is reached exactly one new interval is
\* sampled and the next deadline is stored before the decision is made and
\* before any notification or send; the time spent handling the decision
\* never changes the next deadline; when the deadline has not been reached
\* nothing is sampled and no state changes.
C15_RearmBeforeEmit ==
    [][RearmAtTick /\ RearmOnlyAtTick /\ PendingKeepsState]_vars

\* A packet was sent and the time this took has reached the next deadline,
\* which is still the one stored at the tick.
C15_Witness ==
    /\ ~vpn_mode
    /\ pc = "yield"
    /\ ticks = 2
    /\ Len(mix_rx) = 2
    /\ now >= next_delay
    /\ next_delay = deadline0 + sampled

\* ------------------------------------------------------------------------ C16
\* Unshaped mode never touches the timer, the pending queue, the cover
\* decision or the topology.
UnshapedFrame ==
    vpn_mode =>
        /\ pc \in {"start", "vpn_recv", "vpn_batch", "done", "panicked"}
        /\ next_delay = 0
        /\ deadline0 = 0
        /\ sampled = 0
        /\ ticks = 0
        /\ received_buffer = <<>>
        /\ next_message = NoStreamMessage
        /\ covers = 0
        /\ skips = 0
        /\ topology_lock # "read"
        /\ CoverSent = 0

\* Shaped mode never forwards a batch as one send, and has its first
\* deadline armed when it takes decisions.
ShapedFrame ==
    ~vpn_mode =>
        /\ pc \notin {"vpn_recv", "vpn_batch"}
        /\ batch_iter = <<>>
        /\ mix_packets = <<>>
        /\ \A i \in 1..Len(mix_rx) : Len(mix_rx[i]) = 1
        /\ pc # "start" =>
            /\ deadline0 > 0
            /\ next_delay = deadline0 + sampled

\* The mode never changes, and the first deadline is armed once, in shaped
\* mode, before any decision.
ArmedOnce ==
    /\ vpn_mode' = vpn_mode
    /\ pc' = "start" => pc = "start"
    /\ deadline0' # deadline0 =>
        /\ ~vpn_mode
        /\ pc = "start"
        /\ ticks = 0
        /\ deadline0' - now \in Intervals
        /\ next_delay' = deadline0'

\* C16: the mode is chosen once when the run loop starts and never changes;
\* in unshaped mode the deadline is never sampled or re-armed, the pending
\* queue stays empty and no Cover decision or topology access occurs; in
\* shaped mode the deadline is armed exactly once before the first decision
\* and no batch is ever forwarded as a multi-packet send.
C16_ModeExclusivity ==
    /\ [](UnshapedFrame /\ ShapedFrame)
    /\ [][ArmedOnce]_vars

\* An unshaped run that forwarded a two-packet batch as one send and
\* returned, time having passed, with the timer never armed.
C16_Witness ==
    /\ vpn_mode
    /\ pc = "done"
    /\ now = MaxTime
    /\ Len(mix_rx) = 2
    /\ Len(mix_rx[1]) = 2
    /\ next_delay = 0
    /\ ticks = 0

\* ------------------------------------------------------------------------ C17
\* A downstream send of shaped mode leaves the task at its yield point.
YieldAfterSend ==
    (~vpn_mode /\ mix_rx' # mix_rx) => pc' = "yield"

\* The task leaves the yield point only to poll for the next decision, and
\* that step decides, emits or re-arms nothing.
YieldBeforeDecision ==
    (pc = "yield" /\ pc' # "yield") =>
        /\ pc' = "next"
        /\ ~IsTick
        /\ UNCHANGED <<outs, next_delay, received_buffer, real_receiver>>

\* A decision comes only out of a poll, never straight out of a send.
DecisionOnlyFromPoll ==
    IsTick => pc = "next"

\* C17: in shaped mode, after every downstream send (real or cover) the task
\* reaches a yield point before the next scheduling decision is made, even
\* if the next deadline has already passed and a message is ready.
C17_YieldAfterEmission ==
    [][YieldAfterSend /\ YieldBeforeDecision /\ DecisionOnlyFromPoll]_vars

\* The task is at the yield point after a send although the next deadline
\* has passed and a message is ready in the pending queue.
C17_Witness ==
    /\ ~vpn_mode
    /\ pc = "yield"
    /\ mix_rx # <<>>
    /\ now >= next_delay
    /\ received_buffer # <<>>

\* ------------------------------------------------------------------------ C18
\* The read handle is held only between its acquisition for a Cover decision
\* and the end of the match arm that uses it: not at the timer wait, the
\* intake receive, the send or the yield.
PermitScope ==
    topology_lock = "read" =>
        /\ ~vpn_mode
        /\ pc = "permit"
        /\ next_message = StreamCover

\* The handle is taken for a Cover decision only, is gone when the skip path
\* returns and before the send and the yield, and the scheduler never takes
\* the write half.
PermitSteps ==
    /\ (topology_lock # "read" /\ topology_lock' = "read") =>
           (pc = "on_message" /\ next_message = StreamCover)
    /\ (pc = "permit" /\ pc' # "permit") => topology_lock' = "free"
    /\ (mix_rx' # mix_rx \/ pc = "yield" \/ pc' = "yield") =>
           (topology_lock # "read" /\ topology_lock' # "read")
    /\ (topology_lock # "write" /\ topology_lock' = "write") =>
           UNCHANGED sched

\* C18: the scheduler acquires only a read handle on the topology, only
\* while handling a Cover decision, and releases it before the downstream
\* send and before the yield (and on the skip path before returning); it
\* never holds the handle while suspended at the timer wait, the intake
\* receive or the yield.
C18_PermitScope == []PermitScope /\ [][PermitSteps]_vars

\* A cover packet is about to be sent with the handle released, after an
\* earlier Cover decision was skipped, the handle released as well.
C18_Witness ==
    /\ pc = "send"
    /\ next_message = StreamCover
    /\ topology_lock = "free"
    /\ skips = 1
    /\ covers = 2

\* ------------------------------------------------------------------------ C19
\* The step in which the run loop sees the closure and returns.
CloseObserved == pc # "done" /\ pc' = "done"

\* The closure is seen with nothing left to take, and in shaped mode at a
\* tick.
CloseWhenDrained ==
    CloseObserved =>
        /\ intake_closed
        /\ Backlog = 0
        /\ mix_packets = <<>>
        /\ next_message = NoStreamMessage
        /\ ~vpn_mode => (IsTick /\ pc = "next" /\ now >= next_delay)

\* When the loop has returned, every delivered message was notified and
\* forwarded.
AllForwardedAtReturn ==
    pc = "done" =>
        /\ RealSent = PacketsOf(DeliveredMsgs)
        /\ notified = FragsOf(DeliveredMsgs)

\* C19: the closure of intake is observed only at a point where the pending
\* queue is empty and the intake channel holds no undelivered batch, so every
\* message of every batch delivered before the closure is still notified and
\* forwarded downstream before the run loop returns, in both modes; in shaped
\* mode the loop returns only at a tick, never between ticks.
C19_DrainBeforeClose == []AllForwardedAtReturn /\ [][CloseWhenDrained]_vars

\* A shaped run that returned at its fourth tick after three ticks that each
\* emitted a queued real message.
C19_Witness ==
    /\ ~vpn_mode
    /\ pc = "done"
    /\ ticks = 4
    /\ covers = 0
    /\ Len(RealSent) = 3
    /\ Len(notified) = 3

\* ------------------------------------------------------------------------ C20
\* A tick of shaped mode takes an empty batch from the intake channel.
EmptyBatchTaken ==
    /\ IsTick
    /\ received_buffer = <<>>
    /\ real_receiver # <<>>
    /\ Head(real_receiver) = <<>>

\* That tick re-arms the deadline and aborts: no decision, no notification,
\* no packet.
EmptyBatchAborts ==
    EmptyBatchTaken =>
        /\ pc' = "panicked"
        /\ panic' = "received_buffer"
        /\ sampled' - sampled \in Intervals
        /\ next_delay' = next_delay + (sampled' - sampled)
        /\ real_receiver' = Tail(real_receiver)
        /\ UNCHANGED <<next_message, covers, outs>>

\* After the abort the scheduler does nothing more.
EmptyBatchIsFinal ==
    panic = "received_buffer" =>
        UNCHANGED <<sched, outs, deadline0, sampled, ticks, skips, covers>>

\* C20: in shaped mode, if the batch taken from intake at a tick is empty the
\* scheduler produces no Cover decision and does not go on to the next tick:
\* it aborts on the pop of the freshly stored empty queue, so no further
\* packet or notification is ever emitted, although the next deadline was
\* already re-armed for that tick.
C20_EmptyBatchAborts == [][EmptyBatchAborts /\ EmptyBatchIsFinal]_vars

\* The first batch was empty: the scheduler aborted at its first tick with
\* the deadline re-armed, and the batch delivered after it is never taken.
C20_Witness ==
    /\ ~vpn_mode
    /\ pc = "panicked"
    /\ panic = "received_buffer"
    /\ ticks = 1
    /\ sampled > 0
    /\ next_delay = deadline0 + sampled
    /\ delivered[1] = <<>>
    /\ real_receiver # <<>>
    /\ mix_rx = <<>>
    /\ notified = <<>>

====
